---- MODULE Spec2Model ----
(***************************************************************************)
(* Model of scripts/extract_travis_buildings.py: the geometry filter       *)
(* is_in_travis_county and the line-oriented scanner process_texas_geojson.*)
(*                                                                         *)
(* Text is a sequence of tokens.  A token stands for a fixed piece of      *)
(* text; what the code asks of text (first character, number of braces,    *)
(* presence of the features key, trailing comma, surrounding whitespace,   *)
(* JSON decoding) is computed from the tokens.                             *)
(*   "{" "}" "[" "]" ","   the character itself                            *)
(*   " "     whitespace                                                    *)
(*   "HDR"   "type":"FeatureCollection"                                    *)
(*   "kF"    "features":          "kG"  "geometry":     "kC" "coordinates":*)
(*   "tP"    "type":"Polygon"     "tM"  "type":"MultiPolygon"              *)
(*   "tX"    "type":"Point"                                                *)
(*   "pF"    "name":"features"    "pX"  "id":1                             *)
(*   "nul"   null                 "num" 1                                  *)
(*   "aIn" "aOut" "aHole" "aMulti" "aEmpty" "aEmptySub"                    *)
(*           array literals of coordinates (no braces inside)              *)
(* Coordinates are integers of degrees; the bounding box is kept in tenths *)
(* of a degree so that its bounds are integers.                            *)
(***************************************************************************)
EXTENDS Integers, Sequences, FiniteSets, TLC

VARIABLES
    pc,               \* position in process_texas_geojson
    max_buildings,    \* the cap argument
    stream,           \* the lines the input file is made of
    nread,            \* number of lines the input stream has delivered
    line,             \* the variable `line`
    in_features,
    feature_buffer,
    brace_count,
    total_features,
    found_count,
    travis_buildings,
    feature,          \* the variable `feature` (last decoded value)
    is_in,            \* return value of the last is_in_travis_county call
    loads,            \* history: the result of every json.loads call, in order
    doc,              \* history: the lines read while they follow the documented layout
    in_open,          \* input file handle is open
    out_open,         \* output file handle is open
    out_file,         \* content of the output path
    wpos,             \* number of chunks json.dump has written
    outcome

vars == <<pc, max_buildings, stream, nread, line, in_features, feature_buffer, brace_count,
          total_features, found_count, travis_buildings, feature, is_in, loads,
          doc, in_open, out_open, out_file, wpos, outcome>>

-----------------------------------------------------------------------------
(* Bounds of the model *)

MaxLines == 5
MaxCap == 2
MaxRing == 5

-----------------------------------------------------------------------------
(* TRAVIS_BOUNDS, in tenths of a degree *)

North == 308
South == 300
East == -974
West == -982

-----------------------------------------------------------------------------
(* Text *)

Opens(tok) == IF tok = "{" THEN 1 ELSE 0
Closes(tok) == IF tok = "}" THEN 1 ELSE 0

RECURSIVE BraceDelta(_)
\* line.count('{') - line.count('}')
BraceDelta(s) ==
    IF s = <<>> THEN 0
    ELSE Opens(Head(s)) - Closes(Head(s)) + BraceDelta(Tail(s))

\* '"features"' in line
HasFeaturesKey(s) == \E i \in 1..Len(s) : s[i] \in {"kF", "pF"}

RECURSIVE LStrip(_)
LStrip(s) == IF s # <<>> /\ Head(s) = " " THEN LStrip(Tail(s)) ELSE s

RECURSIVE RStrip(_)
RStrip(s) ==
    IF s # <<>> /\ s[Len(s)] = " " THEN RStrip(SubSeq(s, 1, Len(s) - 1)) ELSE s

\* line.strip()
Strip(s) == RStrip(LStrip(s))

ArrayToks == {"aIn", "aOut", "aHole", "aMulti", "aEmpty", "aEmptySub"}

\* the first character of a token's text
FirstChar(tok) ==
    IF tok \in {"{", "}", "[", "]", ",", " "} THEN tok
    ELSE IF tok \in ArrayToks THEN "["
    ELSE IF tok = "nul" THEN "n"
    ELSE IF tok = "num" THEN "1"
    ELSE "\""

\* line.startswith(ch), ch a single character
StartsWith(s, ch) == s # <<>> /\ FirstChar(Head(s)) = ch

\* line.strip().startswith('{"type":"FeatureCollection"')
StartsWithCollectionTag(s) ==
    LET t == Strip(s) IN Len(t) >= 2 /\ t[1] = "{" /\ t[2] = "HDR"

\* feature_buffer.endswith(',')
EndsWithComma(s) == s # <<>> /\ s[Len(s)] = ","

-----------------------------------------------------------------------------
(* Decoded JSON values.  Every value carries its kind in field k:          *)
(*   [k |-> "obj", m |-> function from keys to values]   a mapping         *)
(*   [k |-> "arr", v |-> sequence]                       a list            *)
(*   [k |-> "str", v |-> string]  [k |-> "num"]  [k |-> "null"]            *)
(* The value of a coordinates literal is a list whose elements are kept    *)
(* bare: rings of <<lng, lat>> pairs.                                      *)

JNull == [k |-> "null"]
JNum == [k |-> "num"]
JStr(s) == [k |-> "str", v |-> s]
JArr(s) == [k |-> "arr", v |-> s]
JObj(m) == [k |-> "obj", m |-> m]

\* a mapping with key set to val (a later duplicate key overrides, as json.loads does)
Put(m, key, val) ==
    [x \in (DOMAIN m) \cup {key} |-> IF x = key THEN val ELSE m[x]]

CoordsOf(tok) ==
    CASE tok = "aIn" -> << << <<-98, 30>>, <<-98, 31>> >> >>
      [] tok = "aOut" -> << << <<-97, 30>>, <<-97, 31>> >> >>
      [] tok = "aHole" -> << << <<-97, 30>>, <<-97, 30>> >>, << <<-98, 30>>, <<-98, 30>> >> >>
      [] tok = "aMulti" -> << << << <<-98, 30>> >> >>, << << <<-98, 31>> >> >> >>
      [] tok = "aEmpty" -> << >>
      [] tok = "aEmptySub" -> << << >> >>

\* members whose value is a scalar held in the same token
ScalarMembers == {"HDR", "tP", "tM", "tX", "pF", "pX"}
\* keys whose value follows as separate tokens
KeyToks == {"kF", "kG", "kC"}

KeyOf(tok) ==
    CASE tok \in {"HDR", "tP", "tM", "tX"} -> "type"
      [] tok = "pF" -> "name"
      [] tok = "pX" -> "id"
      [] tok = "kF" -> "features"
      [] tok = "kG" -> "geometry"
      [] tok = "kC" -> "coordinates"

ValOf(tok) ==
    CASE tok = "HDR" -> JStr("FeatureCollection")
      [] tok = "tP" -> JStr("Polygon")
      [] tok = "tM" -> JStr("MultiPolygon")
      [] tok = "tX" -> JStr("Point")
      [] tok = "pF" -> JStr("features")
      [] tok = "pX" -> JNum

-----------------------------------------------------------------------------
(* json.loads: a recursive-descent decoder over the tokens.  A result is   *)
(* [ok |-> FALSE] (json.JSONDecodeError) or [ok |-> TRUE, val, nxt].       *)

DecodeError == [ok |-> FALSE]
Decoded(val, nxt) == [ok |-> TRUE, val |-> val, nxt |-> nxt]

RECURSIVE SkipWs(_, _)
SkipWs(b, i) == IF i <= Len(b) /\ b[i] = " " THEN SkipWs(b, i + 1) ELSE i

RECURSIVE ParseValue(_, _), ParseMembers(_, _, _), ParseElements(_, _, _)

ParseValue(b, i0) ==
    LET i == SkipWs(b, i0) IN
    IF i > Len(b) THEN DecodeError
    ELSE IF b[i] = "nul" THEN Decoded(JNull, i + 1)
    ELSE IF b[i] = "num" THEN Decoded(JNum, i + 1)
    ELSE IF b[i] \in ArrayToks THEN Decoded(JArr(CoordsOf(b[i])), i + 1)
    ELSE IF b[i] = "{" THEN
        LET j == SkipWs(b, i + 1) IN
        IF j <= Len(b) /\ b[j] = "}" THEN Decoded(JObj(<<>>), j + 1)
        ELSE ParseMembers(b, j, <<>>)
    ELSE IF b[i] = "[" THEN
        LET j == SkipWs(b, i + 1) IN
        IF j <= Len(b) /\ b[j] = "]" THEN Decoded(JArr(<<>>), j + 1)
        ELSE ParseElements(b, j, <<>>)
    ELSE DecodeError

\* after a member or an element: "," continues, the closer ends
ParseMembers(b, i, m) ==
    IF i > Len(b) THEN DecodeError
    ELSE
        LET r == IF b[i] \in ScalarMembers THEN Decoded(ValOf(b[i]), i + 1)
                 ELSE IF b[i] \in KeyToks THEN ParseValue(b, i + 1)
                 ELSE DecodeError
        IN
        IF ~r.ok THEN DecodeError
        ELSE
            LET m2 == Put(m, KeyOf(b[i]), r.val)
                j == SkipWs(b, r.nxt)
            IN
            IF j > Len(b) THEN DecodeError
            ELSE IF b[j] = "}" THEN Decoded(JObj(m2), j + 1)
            ELSE IF b[j] = "," THEN ParseMembers(b, SkipWs(b, j + 1), m2)
            ELSE DecodeError

ParseElements(b, i, acc) ==
    LET r == ParseValue(b, i) IN
    IF ~r.ok THEN DecodeError
    ELSE
        LET j == SkipWs(b, r.nxt) IN
        IF j > Len(b) THEN DecodeError
        ELSE IF b[j] = "]" THEN Decoded(JArr(Append(acc, r.val)), j + 1)
        ELSE IF b[j] = "," THEN ParseElements(b, j + 1, Append(acc, r.val))
        ELSE DecodeError

\* json.loads(text): one value, then nothing but whitespace
json_loads(b) ==
    LET r == ParseValue(b, 1) IN
    IF r.ok /\ SkipWs(b, r.nxt) > Len(b) THEN r ELSE DecodeError

-----------------------------------------------------------------------------
(* is_in_travis_county *)

RECURSIVE OuterRings(_)
\* coordinates = []; for polygon in ...: coordinates.extend(polygon[0])
\* (defined when every polygon has a first ring)
OuterRings(polys) ==
    IF polys = <<>> THEN <<>> ELSE Head(polys)[1] \o OuterRings(Tail(polys))

RECURSIVE SumAt(_, _)
\* sum(coord[c] for coord in coordinates)
SumAt(pts, c) == IF pts = <<>> THEN 0 ELSE Head(pts)[c] + SumAt(Tail(pts), c)

\* variant of MeanWithin with the bounds excluded
MeanWithin_Exclusive(lo, sum, n, hi) == lo * n < 10 * sum /\ 10 * sum < hi * n

\* lo <= sum/n <= hi, with lo and hi in tenths and n > 0
MeanWithin(lo, sum, n, hi) == lo * n <= 10 * sum /\ 10 * sum <= hi * n

\* the test of lines 39-47 on the collected outer-ring points
CenterInBounds(pts) ==
    IF pts = <<>> THEN "False"
    ELSE IF MeanWithin(South, SumAt(pts, 2), Len(pts), North)
            /\ MeanWithin(West, SumAt(pts, 1), Len(pts), East)
         THEN "True" ELSE "False"

\* the body of the try block: "True", "False", or the exception raised
FilterBody(f) ==
    IF f.k = "arr" THEN "False"
    ELSE IF f.k # "obj" THEN "TypeError"
    ELSE IF "geometry" \notin DOMAIN f.m THEN "False"
    ELSE
        LET geometry == f.m["geometry"] IN
        IF geometry.k \in {"arr", "str"} THEN "False"
        ELSE IF geometry.k # "obj" THEN "TypeError"
        ELSE IF "coordinates" \notin DOMAIN geometry.m THEN "False"
        ELSE IF "type" \notin DOMAIN geometry.m THEN "KeyError"
        ELSE
            LET c == geometry.m["coordinates"] IN
            IF geometry.m["type"] = JStr("Polygon") THEN
                IF c.k # "arr" THEN "TypeError"
                ELSE IF c.v = <<>> THEN "IndexError"
                ELSE CenterInBounds(c.v[1])
            ELSE IF geometry.m["type"] = JStr("MultiPolygon") THEN
                IF c.k # "arr" THEN "TypeError"
                ELSE IF \E i \in 1..Len(c.v) : c.v[i] = <<>> THEN "IndexError"
                ELSE CenterInBounds(OuterRings(c.v))
            ELSE "False"

\* variant of is_in_travis_county in which an exception is not a rejection
is_in_travis_county_ErrorsPass(f) == FilterBody(f) # "False"

\* except Exception: return False
is_in_travis_county(f) == FilterBody(f) = "True"

-----------------------------------------------------------------------------
(* json.dump(output_geojson, f, indent=2): the document is written chunk   *)
(* by chunk.  Keys are written in one fixed order.                         *)

KeyOrder == <<"type", "geometry", "coordinates", "name", "id", "features">>

RECURSIVE Encode(_), EncodeMembers(_, _)

\* (a string is only ever the value of a scalar member, written by EncodeMembers)

Encode(val) ==
    IF val.k = "null" THEN <<"nul">>
    ELSE IF val.k = "num" THEN <<"num">>
    ELSE IF val.k = "arr" THEN <<CHOOSE t \in ArrayToks : CoordsOf(t) = val.v>>
    ELSE <<"{">> \o EncodeMembers(val.m, 1) \o <<"}">>

\* the members of mapping m for the keys KeyOrder[i..], comma-separated
EncodeMembers(m, i) ==
    IF i > Len(KeyOrder) THEN <<>>
    ELSE IF KeyOrder[i] \notin DOMAIN m THEN EncodeMembers(m, i + 1)
    ELSE
        LET key == KeyOrder[i]
            one == IF key \in {"type", "name", "id"}
                   THEN <<CHOOSE t \in ScalarMembers : KeyOf(t) = key /\ ValOf(t) = m[key]>>
                   ELSE <<CHOOSE t \in KeyToks : KeyOf(t) = key>> \o Encode(m[key])
            rest == EncodeMembers(m, i + 1)
        IN IF rest = <<>> THEN one ELSE one \o <<",", " ">> \o rest

\* the chunks of the document whose features list is fs
DumpChunks(fs) ==
    << <<"{", " ", "HDR", ",", " ", "kF", "[">> >>
    \o [i \in 1..Len(fs) |-> (IF i = 1 THEN <<" ">> ELSE <<",", " ">>) \o Encode(fs[i])]
    \o << <<" ", "]", " ", "}">> >>

RECURSIVE Flatten(_)
Flatten(chunks) ==
    IF chunks = <<>> THEN <<>> ELSE Head(chunks) \o Flatten(Tail(chunks))

-----------------------------------------------------------------------------
(* The input: lines the stream can deliver *)

LHeader == <<"{", "HDR", ",">>
LHeaderKey == <<" ", "{", "HDR", ",", "kF", "[">>
LKey == <<"kF", "[">>
LArrayOpen == <<"[">>
LArrayClose == <<"]">>
LBlank == <<>>
LIn == <<"{", "kG", "{", "tP", ",", "kC", "aIn", "}", "}", ",">>
LIn2 == <<" ", "{", "kG", "{", "tM", ",", "kC", "aMulti", "}", "}">>
LOut == <<"{", "kG", "{", "tP", ",", "kC", "aOut", "}", "}", ",">>
LNullGeo == <<"{", "kG", "nul", "}", ",">>
LNum == <<"num", ",">>
LNoGeo == <<"{", "pX", "}", ",">>
LNoType == <<"{", "kG", "{", "kC", "aIn", "}", "}", ",">>
LEmptyCoords == <<"{", "kG", "{", "tP", ",", "kC", "aEmpty", "}", "}", ",">>
LEmptySub == <<"{", "kG", "{", "tM", ",", "kC", "aEmptySub", "}", "}", ",">>
LBad == <<"{", "kG", ",", "}", ",">>
LOpen == <<"{", "kG", "{", "tP", ",">>
LCont == <<"kC", "aIn", "}", "}", ",">>
LInF == <<"{", "kG", "{", "tP", ",", "kC", "aIn", "}", ",", "pF", "}", ",">>
LOpenC == <<"{", "kG", "{", "tP", ",", "kC">>
LContArr == <<"aIn", "}", "}", ",">>
LOpenBr == <<"{", "kG", "{", "tP", ",", "kC", "[">>
LCloseBr == <<"]", "}", "}", ",">>

\* inputs that exercise the scanner: preamble, brackets, blank lines, features on
\* one line and on two, a feature that does not decode
ScannerLines == {LHeader, LHeaderKey, LKey, LArrayOpen, LArrayClose, LBlank,
                 LIn, LIn2, LOut, LBad, LOpen, LCont}

\* inputs that exercise the filter: one feature per line, geometry sound or not
GeometryLines == {LHeaderKey, LKey, LArrayClose, LIn, LNullGeo, LNum, LNoGeo, LNoType,
                  LEmptyCoords, LEmptySub}

\* inputs that exercise brackets and the features text inside a feature: a
\* property whose value is "features", a feature continued on a line that begins
\* with "[" or with "]"
BracketLines == {LHeaderKey, LKey, LIn, LInF, LOpenC, LContArr, LOpenBr, LCloseBr}

Lines == ScannerLines \cup GeometryLines \cup BracketLines

\* what readline returns at end of stream (the empty string; a blank line is "\n")
EOF == <<"<eof>">>

\* the output path before the run touches it
Untouched == <<"<old>">>

\* `feature` before its first assignment
Unbound == [k |-> "unbound"]

-----------------------------------------------------------------------------
(* The documented layout: a first line beginning with the FeatureCollection*)
(* tag, a line containing the features key (the first line itself or the   *)
(* second), then feature objects, one per line, then a closing "]".        *)

NoLayout == << <<"#">> >>

StripTrailingCommaText(s) ==
    IF EndsWithComma(s) THEN SubSeq(s, 1, Len(s) - 1) ELSE s

\* a line holding one brace-balanced, decodable feature object
IsFeatureLine(ln) ==
    LET t == Strip(ln) IN
    /\ StartsWith(t, "{")
    /\ BraceDelta(t) = 0
    /\ json_loads(StripTrailingCommaText(t)).ok

\* number of lines the preamble of d takes (1 or 2), 0 if d has no preamble yet
PreambleLen(d) ==
    IF d = <<>> \/ ~StartsWithCollectionTag(d[1]) THEN 0
    ELSE IF HasFeaturesKey(d[1]) THEN 1
    ELSE IF Len(d) >= 2 /\ HasFeaturesKey(d[2]) /\ ~StartsWith(Strip(d[2]), "{") THEN 2
    ELSE 0

\* d is a whole input in the documented layout
IsDocInput(d) ==
    LET p == PreambleLen(d) IN
    /\ p > 0
    /\ Len(d) > p
    /\ Strip(d[Len(d)]) = <<"]">>
    /\ \A i \in (p + 1)..(Len(d) - 1) : IsFeatureLine(d[i])

\* d can be extended to an input in the documented layout
IsDocPrefix(d) ==
    LET p == PreambleLen(d) IN
    \/ d = <<>>
    \/ Len(d) = 1 /\ StartsWithCollectionTag(d[1])
    \/ p > 0 /\ \A i \in (p + 1)..Len(d) : IsFeatureLine(d[i])
    \/ IsDocInput(d)

DocAfter(d, ln) ==
    IF d # NoLayout /\ ~IsDocInput(d) /\ IsDocPrefix(Append(d, ln))
    THEN Append(d, ln) ELSE NoLayout

-----------------------------------------------------------------------------
(* process_texas_geojson: helpers of the scan loop *)

\* variant of BufferAfter that never starts a new buffer
BufferAfter_AlwaysAppend(buf, ln) == buf \o ln

\* lines 97-102: the buffer after a line that is neither skipped nor the end
BufferAfter(buf, ln) == IF StartsWith(ln, "{") THEN ln ELSE buf \o ln

\* variant of BraceCountAfter that keeps counting across a new buffer
BraceCountAfter_NoReset(bc, ln) == bc + BraceDelta(ln)

\* lines 97-102: the brace counter after such a line
BraceCountAfter(bc, ln) ==
    IF StartsWith(ln, "{") THEN BraceDelta(ln) ELSE bc + BraceDelta(ln)

\* line 105
FeatureComplete(bc, buf) == bc = 0 /\ buf # <<>>

\* lines 108-109
StripTrailingComma(buf) ==
    IF EndsWithComma(buf) THEN SubSeq(buf, 1, Len(buf) - 1) ELSE buf

\* variant of AppendFeature that puts the feature in front
AppendFeature_Front(buildings, f) == <<f>> \o buildings

\* line 115
AppendFeature(buildings, f) == Append(buildings, f)

\* variant of CapReached that stops one feature late
CapReached_Late(n, cap) == n > cap

\* line 121
CapReached(n, cap) == n >= cap

\* One iteration of `for line in f` (lines 86-129) on the raw line raw, from
\* the scanner state st; stop is TRUE when the iteration ends in `break`.
ScanStep(st, raw, cap) ==
    LET ln == Strip(raw) IN
    IF HasFeaturesKey(ln) THEN [st EXCEPT !.in_features = TRUE]
    ELSE IF ~st.in_features THEN st
    ELSE IF StartsWith(ln, "[") THEN st
    ELSE IF StartsWith(ln, "]") THEN [st EXCEPT !.stop = TRUE]
    ELSE
        LET buf == BufferAfter(st.feature_buffer, ln)
            bc == BraceCountAfter(st.brace_count, ln)
        IN
        IF ~FeatureComplete(bc, buf)
        THEN [st EXCEPT !.feature_buffer = buf, !.brace_count = bc]
        ELSE
            LET text == StripTrailingComma(buf)
                r == json_loads(text)
            IN
            IF ~r.ok
            THEN [st EXCEPT !.feature_buffer = text, !.brace_count = bc,
                            !.loads = Append(@, DecodeError)]
            ELSE IF ~is_in_travis_county(r.val)
            THEN [st EXCEPT !.feature_buffer = <<>>, !.brace_count = bc,
                            !.feature = r.val, !.is_in = FALSE,
                            !.total_features = @ + 1,
                            !.loads = Append(@, r)]
            ELSE [st EXCEPT !.feature_buffer =
                                IF CapReached(st.found_count + 1, cap) THEN text ELSE <<>>,
                            !.brace_count = bc,
                            !.feature = r.val, !.is_in = TRUE,
                            !.total_features = @ + 1,
                            !.loads = Append(@, r),
                            !.travis_buildings = AppendFeature(@, r.val),
                            !.found_count = @ + 1,
                            !.stop = CapReached(st.found_count + 1, cap)]

\* the scanner's variables as one record
ScanState ==
    [in_features |-> in_features, feature_buffer |-> feature_buffer,
     brace_count |-> brace_count, total_features |-> total_features,
     found_count |-> found_count, travis_buildings |-> travis_buildings,
     feature |-> feature, is_in |-> is_in, loads |-> loads, stop |-> FALSE]

-----------------------------------------------------------------------------
(* State machine *)

Init ==
    /\ pc = "open"
    /\ max_buildings \in 0..MaxCap
    /\ stream \in {ScannerLines, GeometryLines, BracketLines}
    /\ nread = 0
    /\ line = <<>>
    /\ in_features = FALSE
    /\ feature_buffer = <<>>
    /\ brace_count = 0
    /\ total_features = 0
    /\ found_count = 0
    /\ travis_buildings = <<>>
    /\ feature = Unbound
    /\ is_in = FALSE
    /\ loads = <<>>
    /\ doc = <<>>
    /\ in_open = FALSE
    /\ out_open = FALSE
    /\ out_file = Untouched
    /\ wpos = 0
    /\ outcome = "running"

scanVars == <<in_features, feature_buffer, brace_count, total_features, found_count,
              travis_buildings, feature, is_in, loads>>
outVars == <<out_open, out_file, wpos>>

\* variant of Return that leaves the input handle open
Return_KeepsHandle(why) ==
    /\ pc' = "done"
    /\ outcome' = why
    /\ in_open' = in_open

\* "return" from inside `with open(input_path)`: the handle is released
Return(why) ==
    /\ pc' = "done"
    /\ outcome' = why
    /\ in_open' = FALSE

\* what the stream delivers next: a line, or end of stream
Delivers(ln) ==
    \/ ln = EOF
    \/ ln \in stream /\ nread < MaxLines

Consume(ln) ==
    /\ nread' = IF ln = EOF THEN nread ELSE nread + 1
    /\ doc' = IF ln = EOF THEN doc ELSE DocAfter(doc, ln)

\* line 65: open(input_path)
OpenInput ==
    /\ pc = "open"
    /\ pc' = "preamble"
    /\ in_open' = TRUE
    /\ UNCHANGED <<max_buildings, stream, nread, line, scanVars, doc, outVars, outcome>>

\* lines 131-133: FileNotFoundError
OpenInputFails ==
    /\ pc = "open"
    /\ Return("input_not_found")
    /\ UNCHANGED <<max_buildings, stream, nread, line, scanVars, doc, outVars>>

\* lines 67-70
Preamble ==
    /\ pc = "preamble"
    /\ \E ln \in Lines \cup {EOF} :
        /\ Delivers(ln)
        /\ Consume(ln)
        /\ line' = ln
        /\ IF ln # EOF /\ StartsWithCollectionTag(ln)
           THEN pc' = "seek" /\ UNCHANGED <<in_open, outcome>>
           ELSE Return("format_error")
    /\ UNCHANGED <<max_buildings, stream, scanVars, outVars>>

\* lines 73-74: one iteration of the while loop
SeekRead ==
    /\ pc = "seek"
    /\ line # EOF /\ ~HasFeaturesKey(line)
    /\ \E ln \in Lines \cup {EOF} :
        /\ Delivers(ln)
        /\ Consume(ln)
        /\ line' = ln
    /\ UNCHANGED <<pc, max_buildings, stream, scanVars, in_open, outVars, outcome>>

\* variant of SeekExit without the end-of-stream check of lines 76-78
SeekExit_NoEndCheck ==
    /\ pc = "seek"
    /\ ~(line # EOF /\ ~HasFeaturesKey(line))
    /\ pc' = "scan"
    /\ in_features' = FALSE
    /\ feature_buffer' = <<>>
    /\ brace_count' = 0
    /\ UNCHANGED <<in_open, outcome>>
    /\ UNCHANGED <<max_buildings, stream, nread, line, total_features, found_count,
                   travis_buildings, feature, is_in, loads, doc, outVars>>

\* variant of SeekExit for a loop that does not test for the end of the stream
SeekExit_OnlyOnKey ==
    /\ pc = "seek"
    /\ line # EOF /\ HasFeaturesKey(line)
    /\ pc' = "scan"
    /\ in_features' = FALSE
    /\ feature_buffer' = <<>>
    /\ brace_count' = 0
    /\ UNCHANGED <<in_open, outcome>>
    /\ UNCHANGED <<max_buildings, stream, nread, line, total_features, found_count,
                   travis_buildings, feature, is_in, loads, doc, outVars>>

\* lines 76-83: the while loop has ended
SeekExit ==
    /\ pc = "seek"
    /\ ~(line # EOF /\ ~HasFeaturesKey(line))
    /\ IF line = EOF
       THEN Return("format_error") /\ UNCHANGED <<in_features, feature_buffer, brace_count>>
       ELSE /\ pc' = "scan"
            /\ in_features' = FALSE
            /\ feature_buffer' = <<>>
            /\ brace_count' = 0
            /\ UNCHANGED <<in_open, outcome>>
    /\ UNCHANGED <<max_buildings, stream, nread, line, total_features, found_count,
                   travis_buildings, feature, is_in, loads, doc, outVars>>

\* variant of ScanLine that counts every decode attempt as a scanned feature
ScanLine_CountsAttempts ==
    /\ pc = "scan"
    /\ \E ln \in Lines :
        /\ Delivers(ln)
        /\ Consume(ln)
        /\ line' = Strip(ln)
        /\ LET n == ScanStep(ScanState, ln, max_buildings) IN
            /\ in_features' = n.in_features
            /\ feature_buffer' = n.feature_buffer
            /\ brace_count' = n.brace_count
            /\ total_features' = total_features + (Len(n.loads) - Len(loads))
            /\ found_count' = n.found_count
            /\ travis_buildings' = n.travis_buildings
            /\ feature' = n.feature
            /\ is_in' = n.is_in
            /\ loads' = n.loads
            /\ pc' = IF n.stop THEN "report" ELSE "scan"
            /\ in_open' = ~n.stop
    /\ UNCHANGED <<max_buildings, stream, outVars, outcome>>

\* lines 85-129: one iteration of the for loop
ScanLine ==
    /\ pc = "scan"
    /\ \E ln \in Lines :
        /\ Delivers(ln)
        /\ Consume(ln)
        /\ line' = Strip(ln)
        /\ LET n == ScanStep(ScanState, ln, max_buildings) IN
            /\ in_features' = n.in_features
            /\ feature_buffer' = n.feature_buffer
            /\ brace_count' = n.brace_count
            /\ total_features' = n.total_features
            /\ found_count' = n.found_count
            /\ travis_buildings' = n.travis_buildings
            /\ feature' = n.feature
            /\ is_in' = n.is_in
            /\ loads' = n.loads
            /\ pc' = IF n.stop THEN "report" ELSE "scan"
            /\ in_open' = ~n.stop
    /\ UNCHANGED <<max_buildings, stream, outVars, outcome>>

\* line 85: the stream is exhausted
ScanEnd ==
    /\ pc = "scan"
    /\ pc' = "report"
    /\ in_open' = FALSE
    /\ UNCHANGED <<max_buildings, stream, nread, line, scanVars, doc, outVars, outcome>>

\* lines 134-136: reading raises (an I/O or a decoding error of the stream)
ReadFails ==
    /\ \/ pc \in {"preamble", "scan"}
       \/ pc = "seek" /\ line # EOF /\ ~HasFeaturesKey(line)
    /\ Return("read_error")
    /\ UNCHANGED <<max_buildings, stream, nread, line, scanVars, doc, outVars>>

\* variant of Report without the return of lines 142-144
Report_AlwaysSave ==
    /\ pc = "report"
    /\ pc' = "save"
    /\ UNCHANGED <<max_buildings, stream, nread, line, scanVars, doc, in_open, outVars,
                   outcome>>

\* lines 138-150
Report ==
    /\ pc = "report"
    /\ IF found_count = 0
       THEN pc' = "done" /\ outcome' = "none_found"
       ELSE pc' = "save" /\ UNCHANGED outcome
    /\ UNCHANGED <<max_buildings, stream, nread, line, scanVars, doc, in_open, outVars>>

\* line 154: open(output_path, 'w') truncates the file
OpenOutput ==
    /\ pc = "save"
    /\ pc' = "dump"
    /\ out_open' = TRUE
    /\ out_file' = <<>>
    /\ wpos' = 0
    /\ UNCHANGED <<max_buildings, stream, nread, line, scanVars, doc, in_open, outcome>>

\* lines 154, 160-161: open raises
OpenOutputFails ==
    /\ pc = "save"
    /\ pc' = "done"
    /\ outcome' = "write_error"
    /\ UNCHANGED <<max_buildings, stream, nread, line, scanVars, doc, in_open, outVars>>

\* line 155: json.dump writes the next chunk
DumpChunk ==
    /\ pc = "dump"
    /\ wpos < Len(DumpChunks(travis_buildings))
    /\ out_file' = out_file \o DumpChunks(travis_buildings)[wpos + 1]
    /\ wpos' = wpos + 1
    /\ UNCHANGED <<pc, max_buildings, stream, nread, line, scanVars, doc, in_open, out_open,
                   outcome>>

\* lines 155, 160-161: a write raises; the with block closes the handle
DumpFails ==
    /\ pc = "dump"
    /\ pc' = "done"
    /\ outcome' = "write_error"
    /\ out_open' = FALSE
    /\ UNCHANGED <<max_buildings, stream, nread, line, scanVars, doc, in_open, out_file, wpos>>

\* lines 155-158: the dump is complete, the handle is closed
Saved ==
    /\ pc = "dump"
    /\ wpos = Len(DumpChunks(travis_buildings))
    /\ pc' = "done"
    /\ outcome' = "written"
    /\ out_open' = FALSE
    /\ UNCHANGED <<max_buildings, stream, nread, line, scanVars, doc, in_open, out_file, wpos>>

Next ==
    \/ OpenInput
    \/ OpenInputFails
    \/ Preamble
    \/ SeekRead
    \/ SeekExit
    \/ ScanLine
    \/ ScanEnd
    \/ ReadFails
    \/ Report
    \/ OpenOutput
    \/ OpenOutputFails
    \/ DumpChunk
    \/ DumpFails
    \/ Saved

Spec == Init /\ [][Next]_vars

\* the steps the call takes by itself when nothing fails and no line is left
Advance ==
    \/ OpenInput
    \/ Preamble
    \/ SeekRead
    \/ SeekExit
    \/ ScanEnd
    \/ Report
    \/ OpenOutput
    \/ DumpChunk
    \/ Saved

\* The call runs in one thread that nothing suspends, on a finite input: the
\* statement that is next is executed, and the for loop meets the end of the
\* stream unless it is left before.
SpecFair == Spec /\ WF_vars(Advance)

-----------------------------------------------------------------------------
(* The geometry filter on its own: a feature is drawn, the filter is       *)
(* called once and its return value is recorded in is_in.                  *)

Points == {<<-98, 30>>, <<-98, 31>>, <<-97, 30>>, <<-99, 30>>, <<-98, 29>>}

\* the rings of at most MaxRing points
Rings == UNION {[1..n -> Points] : n \in 0..MaxRing}

\* a second ring: a hole of a polygon, or the outer ring of a second polygon
SecondRings == {<< <<-98, 30>> >>, << <<-97, 31>>, <<-97, 31>> >>}

GeometryTypes == {"Polygon", "MultiPolygon", "Point"}

\* the coordinates a geometry of type ty has: shape 1 is the ring alone, shape 2
\* adds a hole, shape 3 (MultiPolygon) adds a second polygon with a hole
CoordinatesOfShape(ty, shape, ring, second) ==
    IF ty = "MultiPolygon"
    THEN CASE shape = 1 -> << <<ring>> >>
           [] shape = 2 -> << <<ring, second>> >>
           [] shape = 3 -> << <<ring>>, <<second, ring>> >>
    ELSE CASE shape = 1 -> <<ring>>
           [] shape = 2 -> <<ring, second>>
           [] shape = 3 -> <<ring, second, second>>

MkFeature(ty, coords) ==
    JObj([geometry |-> JObj([type |-> JStr(ty), coordinates |-> JArr(coords)])])

InitFilter ==
    /\ pc = "filter"
    /\ \E ty \in GeometryTypes, shape \in 1..3, ring \in Rings, second \in SecondRings :
        feature = MkFeature(ty, CoordinatesOfShape(ty, shape, ring, second))
    /\ max_buildings = 0
    /\ stream = {}
    /\ nread = 0
    /\ line = <<>>
    /\ in_features = FALSE
    /\ feature_buffer = <<>>
    /\ brace_count = 0
    /\ total_features = 0
    /\ found_count = 0
    /\ travis_buildings = <<>>
    /\ is_in = FALSE
    /\ loads = <<>>
    /\ doc = <<>>
    /\ in_open = FALSE
    /\ out_open = FALSE
    /\ out_file = Untouched
    /\ wpos = 0
    /\ outcome = "running"

\* line 114: the call
CallFilter ==
    /\ pc = "filter"
    /\ is_in' = is_in_travis_county(feature)
    /\ pc' = "filtered"
    /\ UNCHANGED <<max_buildings, stream, nread, line, in_features, feature_buffer, brace_count,
                   total_features, found_count, travis_buildings, feature, loads, doc,
                   in_open, outVars, outcome>>

NextFilter == CallFilter

SpecFilter == InitFilter /\ [][NextFilter]_vars

-----------------------------------------------------------------------------
(* Definitions shared by the properties *)

Min(a, b) == IF a <= b THEN a ELSE b

\* the values json.loads returned so far, in order
RECURSIVE ValuesOf(_)
ValuesOf(rs) ==
    IF rs = <<>> THEN <<>>
    ELSE IF Head(rs).ok THEN <<Head(rs).val>> \o ValuesOf(Tail(rs))
    ELSE ValuesOf(Tail(rs))

\* the run is past the scan loop, which ended normally
ScanFinished == pc = "report"

\* nothing was ever done to the output path
OutputUntouched == out_file = Untouched /\ ~out_open /\ wpos = 0

\* the in-region features of an input in the documented layout, in input order
RECURSIVE QualifyingFrom(_, _)
QualifyingFrom(d, i) ==
    IF i >= Len(d) THEN <<>>
    ELSE
        LET f == json_loads(StripTrailingCommaText(Strip(d[i]))).val IN
        (IF is_in_travis_county(f) THEN <<f>> ELSE <<>>) \o QualifyingFrom(d, i + 1)

Qualifying(d) == QualifyingFrom(d, PreambleLen(d) + 1)

-----------------------------------------------------------------------------
(* C1: for an input in the documented layout and a cap of at least 1, when *)
(* the scan has finished the kept sequence is the first min(cap, n) of the *)
(* input's n in-region features, in input order.                           *)
C1_DocLayoutKeepsFirstInRegion ==
    (ScanFinished /\ IsDocInput(doc) /\ max_buildings >= 1) =>
        travis_buildings =
            SubSeq(Qualifying(doc), 1, Min(max_buildings, Len(Qualifying(doc))))

(* C2: for every cap >= 0, zero included, the number of kept features      *)
(* never exceeds the cap.                                                  *)
C2_KeptNeverExceedsCap ==
    /\ found_count <= max_buildings
    /\ Len(travis_buildings) <= max_buildings

(* C3: when the kept counter is raised to the cap the scan stops in that   *)
(* very step, and from then on no line is read, no buffer is decoded and   *)
(* the scanned counter and the kept sequence stay as they are.             *)
C3_ScanStopsAtCap ==
    [][/\ (found_count' # found_count /\ found_count' >= max_buildings) => pc' = "report"
       /\ (found_count > 0 /\ found_count >= max_buildings) =>
              /\ pc' # "scan"
              /\ UNCHANGED <<nread, loads, total_features, found_count, travis_buildings>>
      ]_vars

\* the cap was reached with input still to come
C3_Witness ==
    /\ pc = "report"
    /\ max_buildings = 2
    /\ found_count = 2
    /\ nread < MaxLines

(* C4: the kept sequence is an order-preserving subsequence of the values  *)
(* decoded so far, without repetition of a position, and holds only values *)
(* the filter accepted; the features list of a written output file is the  *)
(* kept sequence.                                                          *)
C4_KeptIsSubsequence ==
    /\ \E f \in [1..Len(travis_buildings) -> 1..Len(ValuesOf(loads))] :
          /\ \A i \in 1..Len(travis_buildings) :
                /\ travis_buildings[i] = ValuesOf(loads)[f[i]]
                /\ FilterBody(travis_buildings[i]) = "True"
          /\ \A i, j \in 1..Len(travis_buildings) : i < j => f[i] < f[j]
    /\ outcome = "written" =>
          /\ json_loads(out_file).ok
          /\ json_loads(out_file).val.m["features"] = JArr(travis_buildings)

\* two different features were kept, around one that was not, and written
C4_Witness ==
    /\ outcome = "written"
    /\ Len(travis_buildings) = 2
    /\ travis_buildings[1] # travis_buildings[2]
    /\ Len(ValuesOf(loads)) = 3


\* a stripped line holding one brace-balanced object that does not decode
IsMalformedObjectLine(ln) ==
    /\ StartsWith(ln, "{")
    /\ BraceDelta(ln) = 0
    /\ ~json_loads(StripTrailingCommaText(ln)).ok

\* a step of the scan loop that reads a feature line inside the array
ReadsInArray ==
    /\ pc = "scan"
    /\ nread' = nread + 1
    /\ in_features
    /\ ~HasFeaturesKey(line')

(* C5: inside the array, a brace-balanced object that does not decode is   *)
(* skipped: the counters and the kept sequence do not change and the scan  *)
(* goes on; a well-formed object line is decoded, counted and filtered the *)
(* same way whatever the lines before it left in the buffer.               *)
C5_MalformedObjectIsIsolated ==
    [][/\ (ReadsInArray /\ IsMalformedObjectLine(line')) =>
              /\ loads' = Append(loads, DecodeError)
              /\ UNCHANGED <<total_features, found_count, travis_buildings>>
              /\ pc' = "scan"
              /\ outcome' = "running"
       /\ (ReadsInArray /\ IsFeatureLine(line')) =>
              LET v == json_loads(StripTrailingCommaText(line')).val IN
              /\ Len(loads') = Len(loads) + 1
              /\ loads'[Len(loads')].ok
              /\ loads'[Len(loads')].val = v
              /\ total_features' = total_features + 1
              /\ is_in' = (FilterBody(v) = "True")
              /\ travis_buildings' =
                     IF FilterBody(v) = "True"
                     THEN Append(travis_buildings, v) ELSE travis_buildings
      ]_vars

\* a malformed object was met between two well-formed ones, both kept
C5_Witness ==
    /\ Len(loads) = 3
    /\ loads[1].ok /\ ~loads[2].ok /\ loads[3].ok
    /\ nread = 5
    /\ found_count = 2

\* the run ended by a format error, nothing scanned, nothing written
FormatErrorEnd ==
    /\ pc = "done"
    /\ outcome = "format_error"
    /\ loads = <<>>
    /\ total_features = 0
    /\ found_count = 0
    /\ travis_buildings = <<>>
    /\ OutputUntouched

(* C6: a first line that does not begin with the FeatureCollection tag, or *)
(* the end of the stream before a line with the features key, ends the run *)
(* with a format error: nothing is scanned or kept and the output path is  *)
(* never opened.                                                           *)
C6_FormatErrorEndsRun ==
    [][/\ (/\ pc = "preamble" /\ pc' # "preamble" /\ outcome' # "read_error"
           /\ (line' = EOF \/ ~StartsWithCollectionTag(line'))) => FormatErrorEnd'
       /\ (pc = "seek" /\ line = EOF) => FormatErrorEnd'
       /\ (outcome' = "format_error") => FormatErrorEnd'
      ]_vars

\* the stream ended in Seek-Features, after the first line and one more
C6_Witness ==
    /\ pc = "done"
    /\ outcome = "format_error"
    /\ line = EOF
    /\ nread >= 2

(* C7: as long as no decoded value has passed the filter, the kept count   *)
(* is 0 and the output path is not opened; such a run ends without output. *)
C7_NothingKeptNothingWritten ==
    (\A i \in 1..Len(ValuesOf(loads)) : FilterBody(ValuesOf(loads)[i]) # "True") =>
        /\ found_count = 0
        /\ travis_buildings = <<>>
        /\ OutputUntouched
        /\ pc \notin {"save", "dump"}
        /\ pc = "done" =>
              outcome \in {"none_found", "format_error", "read_error", "input_not_found"}

\* features were decoded, none was in the region, the run is over
C7_Witness ==
    /\ pc = "done"
    /\ outcome = "none_found"
    /\ total_features >= 2

\* the outer-ring points of a feature whose geometry is well formed
RECURSIVE OuterPointsFrom(_, _)
OuterPointsFrom(c, i) ==
    IF i > Len(c) THEN <<>> ELSE c[i][1] \o OuterPointsFrom(c, i + 1)

OuterPoints(f) ==
    LET g == f.m["geometry"].m
        c == g["coordinates"].v
    IN IF g["type"].v = "Polygon" THEN c[1]
       ELSE IF g["type"].v = "MultiPolygon" THEN OuterPointsFrom(c, 1)
       ELSE <<>>

\* the sum over the points of (ten times coordinate c) - bound
RECURSIVE Excess(_, _, _, _)
Excess(pts, c, bound, i) ==
    IF i > Len(pts) THEN 0 ELSE (10 * pts[i][c] - bound) + Excess(pts, c, bound, i + 1)

IsMalformedGeometry(f) ==
    \/ f.k # "obj"
    \/ /\ f.k = "obj"
       /\ \/ "geometry" \notin DOMAIN f.m
          \/ /\ "geometry" \in DOMAIN f.m
             /\ \/ f.m["geometry"].k # "obj"
                \/ /\ f.m["geometry"].k = "obj"
                   /\ LET g == f.m["geometry"].m IN
                      \/ "type" \notin DOMAIN g
                      \/ "coordinates" \notin DOMAIN g
                      \/ /\ "coordinates" \in DOMAIN g
                         /\ \/ g["coordinates"].v = <<>>
                            \/ \E i \in 1..Len(g["coordinates"].v) :
                                  g["coordinates"].v[i] = <<>>

(* C9: a decoded value whose geometry or coordinates are absent or         *)
(* malformed is rejected by the filter; the scanner counts it as scanned,  *)
(* does not keep it and goes on with the next line.                        *)
C9_MalformedGeometryIsRejected ==
    [][(/\ pc = "scan"
        /\ Len(loads') = Len(loads) + 1
        /\ loads'[Len(loads')].ok
        /\ IsMalformedGeometry(loads'[Len(loads')].val)) =>
           /\ ~is_in'
           /\ total_features' = total_features + 1
           /\ UNCHANGED <<found_count, travis_buildings>>
           /\ pc' = "scan"
           /\ outcome' = "running"
           /\ in_open'
      ]_vars

\* a MultiPolygon with an empty sub-polygon was scanned after another feature
C9_Witness ==
    /\ pc = "scan"
    /\ total_features >= 2
    /\ feature = json_loads(StripTrailingCommaText(LEmptySub)).val

(* C10: after a failed write the output path holds no new content or the   *)
(* complete FeatureCollection, never a partial document.                   *)
C10_NoPartialOutput ==
    outcome = "write_error" =>
        \/ out_file = Untouched
        \/ out_file = Flatten(DumpChunks(travis_buildings))


(* C11: the input handle and the output handle are never open together,    *)
(* the input handle is closed once the scan is over, and both are closed    *)
(* when the call has returned, whatever the exit path.                      *)
C11_HandlesReleased ==
    /\ ~(in_open /\ out_open)
    /\ pc \in {"report", "save", "dump", "done"} => ~in_open
    /\ pc = "done" => ~out_open

\* the call returned from inside the scan phase with a read error after a feature
\* had been kept
C11_Witness ==
    /\ pc = "done"
    /\ outcome = "read_error"
    /\ found_count >= 1
    /\ ~in_open

\* a step of the scan loop that reads a line
ReadsLine == pc = "scan" /\ nread' = nread + 1

(* C12: the step that ends Seek-Features on the features-key line leaves   *)
(* the scanner inside the array, so a feature object on the line right     *)
(* after the features-key line is decoded and counted.                     *)
C12_ArrayScanStartsAfterKeyLine ==
    [][/\ (pc = "seek" /\ pc' = "scan") => in_features'
       /\ (ReadsLine /\ HasFeaturesKey(line) /\ ~HasFeaturesKey(line')
             /\ IsFeatureLine(line')) =>
              /\ total_features' = total_features + 1
              /\ feature' = json_loads(StripTrailingCommaText(line')).val
              /\ Len(loads') = Len(loads) + 1
      ]_vars

\* a stripped line that Array-Scan is to append to the buffer
IsContinuationLine(ln) ==
    /\ ~HasFeaturesKey(ln)
    /\ ln # <<"[">>
    /\ ln # <<"]">>
    /\ ~StartsWith(ln, "{")

(* C13: inside the array, every line that is not exactly "[", not exactly  *)
(* "]" and does not begin with "{" is appended verbatim to the buffer and  *)
(* added to the brace counter, whatever its first character; the buffer is *)
(* decoded once, in the step in which the counter reaches zero.            *)
C13_ContinuationLineIsAppended ==
    [][(ReadsLine /\ in_features /\ IsContinuationLine(line')) =>
          LET buf == feature_buffer \o line'
              bc == brace_count + BraceDelta(line')
          IN
          IF FeatureComplete(bc, buf)
          THEN /\ Len(loads') = Len(loads) + 1
               /\ loads'[Len(loads')] = json_loads(StripTrailingComma(buf))
          ELSE /\ feature_buffer' = buf
               /\ brace_count' = bc
               /\ loads' = loads
      ]_vars

(* C14: the scan loop is left only by reading a line that is exactly "]",  *)
(* by the kept counter reaching the cap, or at the end of the stream (a    *)
(* failing read apart); no other line ends it.                             *)
C14_ScanEndsForThreeReasons ==
    [][(pc = "scan" /\ pc' # "scan") =>
          \/ nread' = nread + 1 /\ line' = <<"]">>
          \/ found_count' = found_count + 1 /\ CapReached(found_count', max_buildings)
          \/ nread' = nread /\ pc' = "report"
          \/ outcome' = "read_error"
      ]_vars

\* the geometry member of the feature object on a line
GeometryOn(ln) == json_loads(StripTrailingCommaText(Strip(ln))).val.m["geometry"]

(* C15: from any state of the scan, two single-line feature objects with   *)
(* the same geometry that differ only in another property (here a property *)
(* whose value is the text "features") move the scanned counter, the kept  *)
(* counter and the kept positions the same way.                            *)
C15_OnlyGeometryDecides ==
    (pc = "scan" /\ IsFeatureLine(LIn) /\ IsFeatureLine(LInF)
       /\ GeometryOn(LIn) = GeometryOn(LInF)) =>
        LET a == ScanStep(ScanState, LIn, max_buildings)
            b == ScanStep(ScanState, LInF, max_buildings)
        IN
        /\ a.total_features = b.total_features
        /\ a.found_count = b.found_count
        /\ Len(a.travis_buildings) = Len(b.travis_buildings)
        /\ a.stop = b.stop

(* C16: between two lines of the scan the buffer never holds a completed   *)
(* feature text: a buffer that was handed to the decoder is emptied before *)
(* the next line is read, whether the decode succeeded or failed, so no    *)
(* text is decoded twice.                                                  *)
C16_BufferEmptyAfterDecode ==
    pc = "scan" => ~FeatureComplete(brace_count, feature_buffer)

(* C17: the kept counter is the length of the kept sequence and is at most *)
(* the scanned counter, the scanned counter is the number of successful    *)
(* decodes, and each counter only ever grows, by one per step.             *)
C17_CountersAgree ==
    [][/\ found_count' = Len(travis_buildings')
       /\ found_count' <= total_features'
       /\ total_features' = Len(ValuesOf(loads'))
       /\ total_features' \in {total_features, total_features + 1}
       /\ found_count' \in {found_count, found_count + 1}
      ]_vars

\* three buffers were decoded: one failed, two succeeded, one of these was kept
C17_Witness ==
    /\ Len(loads) = 3
    /\ total_features = 2
    /\ found_count = 1
    /\ Len(travis_buildings) = 1

(* C18: after every line of the scan the brace counter is the number of    *)
(* "{" minus the number of "}" in the current buffer: after a new buffer,  *)
(* an append, the stripping of the comma, a reset and a decode failure.    *)
C18_BraceCountMatchesBuffer ==
    brace_count = BraceDelta(feature_buffer)

\* an open buffer built from more than one line, after an earlier decode
C18_Witness ==
    /\ pc = "scan"
    /\ loads # <<>>
    /\ brace_count >= 1
    /\ StartsWith(feature_buffer, "{")
    /\ ~StartsWith(line, "{")
    /\ line # <<>>
    /\ Len(feature_buffer) > Len(line)

\* the ways the call can end
Outcomes ==
    {"format_error", "read_error", "input_not_found", "none_found", "written",
     "write_error"}

(* C19: every run ends, and it ends in one outcome: a format error, a      *)
(* fatal read error (the input missing or unreadable), nothing kept, the   *)
(* output written, or a failed write; without output in the first three.   *)
(* A Seek-Features loop that never meets the features key ends at the end  *)
(* of the stream.                                                          *)
C19_Terminates ==
    /\ <>(pc = "done")
    /\ [](/\ IF pc = "done" THEN outcome \in Outcomes ELSE outcome = "running"
          /\ outcome \in {"format_error", "read_error", "input_not_found", "none_found"}
                => OutputUntouched)

\* Seek-Features read every line of the stream without meeting the key
C19_Witness ==
    /\ pc = "done"
    /\ outcome = "format_error"
    /\ line = EOF
    /\ nread = MaxLines

====
